---- MODULE Spec2Model ----
(***************************************************************************)
(* Code generation of psychopy's ButtonboxComponent                        *)
(* (src/psychopy/experiment/components/buttonbox/__init__.py).             *)
(*                                                                         *)
(* The component writes lines of Python into an indenting buffer in the    *)
(* phases RoutineStart, FrameUpdate, RoutineEnd.  The buffer is modelled   *)
(* as the sequence of the chunks written to it, each with the indentation  *)
(* it was written at, together with the buffer's current indent level.     *)
(***************************************************************************)
EXTENDS Integers, Sequences, FiniteSets, TLC

\* ------------------------------------------------------------------ bounds
\* largest indentation level the buffer can have when generation starts
MaxIndent == 1
\* largest number of loops enclosing the routine (exp.flow._loopList)
MaxLoops == 1

\* ------------------------------------------------------- parameter domains
\* allowedVals of params['forceEndRoutineOnPress']
forceEndAllowedVals == {"never", "any click", "valid click", "correct click"}
\* allowedVals of params['timeRelativeTo']
timeRelativeToAllowedVals == {"buttonbox onset", "experiment", "routine"}
\* the values the generation code distinguishes for params['saveMouseState']
saveMouseStateVals == {"never", "final", "every frame", "on click", "on valid click"}

\* values a caller may hand to the constructor
forceEndArgs == forceEndAllowedVals \cup {"True", "False", "sometimes"}
timeRelativeToArgs == timeRelativeToAllowedVals \cup {"trial"}
\* values the host may hold for the parameters this class does not declare
saveMouseStateArgs == saveMouseStateVals \cup {"nothing"}
clickableArgs == {<<>>, <<"red", "blue">>}
\* the loops a flow can hold: each has a type and a name of its own
Loops == {[type |-> "TrialHandler", name |-> "trials"],
          [type |-> "StairHandler", name |-> "staircase"]}

\* exp._expHandler: the top-level experiment handler
expHandler == [type |-> "ExperimentHandler", name |-> "thisExp"]
\* self._clickableParamsList
clickableParamsList == <<"name">>

\* ------------------------------------------------------------- the buffer
\* text of one line handed to writeIndentedLines: extra = number of indent
\* units of leading blanks the literal itself carries
Ln(text) == [extra |-> 0, text |-> text]
Ln1(text) == [extra |-> 1, text |-> text]

\* buff.writeIndented(text): one chunk at the current level; nl tells whether
\* the text ends in a line break
writeIndented(b, text, nl) ==
    [b EXCEPT !.lines = Append(@, [ind |-> b.level, text |-> text, nl |-> nl])]

\* buff.writeIndentedLines(text): every line of text at the current level,
\* each one terminated
RECURSIVE writeIndentedLines(_, _)
writeIndentedLines(b, ls) ==
    IF ls = <<>> THEN b
    ELSE writeIndentedLines(
            [b EXCEPT !.lines = Append(@, [ind |-> b.level + Head(ls).extra,
                                           text |-> Head(ls).text,
                                           nl |-> TRUE])],
            Tail(ls))

\* buff.setIndentLevel(delta, relative=True)
setIndentLevel(b, delta) == [b EXCEPT !.level = @ + delta]

\* ------------------------------------------------------- emitted text
T_updates == "# *buttonbox* updates"
T_startTest == "if buttonbox.status == NOT_STARTED and tThisFlip >= start:"
T_stopTest == "if buttonbox.status == STARTED and tThisFlipGlobal > stop:"
T_clockReset == "buttonbox.buttonboxClock.reset()"
T_prevGetKeys == "prevButtonState = buttonbox.getKeys()  # if button is down already this ISN'T a new click"
T_prevEmpty == "prevButtonState = []  # if now button is down we will treat as 'new' click"
T_ifStarted == "if buttonbox.status == STARTED:  # only update if started and not finished!"
T_getKeys == "buttons = buttonbox.getKeys()"
T_ifChanged == "if buttons != prevButtonState:  # button state changed?"
T_prevSet == "prevButtonState = buttons"
T_ifNewClick == "if buttons > 0:  # state changed to a new click"
T_lastResp == "lastResp = buttons[-1]"
T_ifValid == "if gotValidClick:"
T_ifCorr == "if buttonbox.corr and buttonbox.corr[-1]:"
T_end == "continueRoutine = False  # end routine on response"
T_blank == ""

\* mouseCode (the data-append lines)
mouseCode(clockStr) ==
    << Ln("x, y = buttonbox.getPos()"),
       Ln("buttonbox.x.append(x)"),
       Ln("buttonbox.y.append(y)"),
       Ln("buttons = buttonbox.getPressed()"),
       Ln("buttonbox.leftButton.append(buttons[0])"),
       Ln("buttonbox.midButton.append(buttons[1])"),
       Ln("buttonbox.rightButton.append(buttons[2])"),
       Ln("buttonbox.time.append(" \o clockStr \o ".getTime())") >>

\* ------------------------------------------------------------------ state
VARIABLES
    pc,          \* how far the component's life has got: "new", "error",
                 \* "constructed", "configured", "start", "frame", "end"
    params,      \* self.params: the value of each parameter
    loopList,    \* self.exp.flow._loopList, outermost loop first
    buff,        \* the code buffer: [lines, level]
    entryLevel,  \* buff's indent level when the last phase was entered
    fragStart,   \* index in buff.lines of the last phase's first chunk
    loopRead     \* whether writeRoutineEndCode has looked up the enclosing loop

vars == <<pc, params, loopList, buff, entryLevel, fragStart, loopRead>>

\* Param(val, allowedVals=...): a value outside the declared set is refused
\* when it is assigned
ParamAccepts(val, allowedVals) == val \in allowedVals

\* what self.params holds before __init__ has run
noParams ==
    [forceEndRoutineOnPress |-> "unset", timeRelativeTo |-> "unset",
     lights |-> FALSE, clickable |-> <<>>, saveMouseState |-> "unset",
     newClicksOnly |-> FALSE, storeCorrect |-> FALSE,
     startVal |-> "", stopVal |-> ""]

Init ==
    /\ pc = "new"
    /\ params = noParams
    /\ loopList = <<>>
    /\ buff \in {[lines |-> <<>>, level |-> l] : l \in 0..MaxIndent}
    /\ entryLevel = buff.level
    /\ fragStart = 1
    /\ loopRead = FALSE

\* ButtonboxComponent.__init__: True/False are mapped to 'any click'/'never';
\* forceEndRoutineOnPress and timeRelativeTo are declared with allowedVals,
\* lights is set to True and clickable to '' whatever the arguments were; the
\* `save` argument is not stored anywhere
__init__(saveArg, forceEndArg, timeRelativeToArg) ==
    LET forceEnd == IF forceEndArg = "True" THEN "any click"
                    ELSE IF forceEndArg = "False" THEN "never"
                    ELSE forceEndArg
    IN  /\ pc = "new"
        /\ IF /\ ParamAccepts(forceEnd, forceEndAllowedVals)
              /\ ParamAccepts(timeRelativeToArg, timeRelativeToAllowedVals)
           THEN /\ pc' = "constructed"
                /\ params' = [params EXCEPT
                                 !.forceEndRoutineOnPress = forceEnd,
                                 !.lights = TRUE,
                                 !.timeRelativeTo = timeRelativeToArg,
                                 !.clickable = <<>>]
           ELSE /\ pc' = "error"
                /\ UNCHANGED params
        /\ UNCHANGED <<loopList, buff, entryLevel, fragStart, loopRead>>

\* the lists of enclosing loops the flow can hold
LoopLists ==
    UNION {[1..n -> Loops] : n \in 0..MaxLoops}

\* The host fills in, before generation, the list of clickable buttons, the
\* parameters the generation code reads but this class does not declare
\* (saveMouseState, newClicksOnly, storeCorrect), the start/stop settings of
\* the base component, and places the routine in the flow.
configure(clickable, save, newClicksOnly, storeCorrect, startVal, stopVal, loops) ==
    /\ pc = "constructed"
    /\ pc' = "configured"
    /\ params' = [params EXCEPT !.clickable = clickable,
                                !.saveMouseState = save,
                                !.newClicksOnly = newClicksOnly,
                                !.storeCorrect = storeCorrect,
                                !.startVal = startVal,
                                !.stopVal = stopVal]
    /\ loopList' = loops
    /\ UNCHANGED <<buff, entryLevel, fragStart, loopRead>>

\* str.lower() on the values timeRelativeTo can take
lower(s) ==
    CASE s = "Routine" -> "routine"
      [] s = "Experiment" -> "experiment"
      [] s = "Buttonbox onset" -> "buttonbox onset"
      [] OTHER -> s

\* ------------------------------------------------------------ RoutineStart
T_startComment == "# starting the buttonbox and setup a python list for storing the button presses of buttonbox"
T_deviceStart == "buttonbox.start()"
T_respInit == "(name)sResp = []"

\* writeRoutineStartCode with a slip: the clock is reset for every time base
\* but 'experiment'
writeRoutineStartCode_onsetToo(self, b) ==
    LET code == << Ln(T_startComment), Ln(T_deviceStart), Ln(T_respInit) >>
        code2 == IF lower(self.timeRelativeTo) # "experiment"
                 THEN Append(code, Ln(T_clockReset))
                 ELSE code
    IN  writeIndentedLines(b, code2)

writeRoutineStartCode(self, b) ==
    LET code == << Ln(T_startComment), Ln(T_deviceStart), Ln(T_respInit) >>
        code2 == IF lower(self.timeRelativeTo) = "routine"
                 THEN Append(code, Ln(T_clockReset))
                 ELSE code
    IN  writeIndentedLines(b, code2)

RoutineStart ==
    /\ pc = "configured"
    /\ pc' = "start"
    /\ entryLevel' = buff.level
    /\ fragStart' = Len(buff.lines) + 1
    /\ buff' = writeRoutineStartCode(params, buff)
    /\ UNCHANGED <<params, loopList, loopRead>>

\* ------------------------------------------------------------- FrameUpdate
\* self.clockStr as writeFrameCode sets it
clockStrOf(self) ==
    IF lower(self.timeRelativeTo) = "experiment"
    THEN "globalClock"
    ELSE "buttonbox.buttonboxClock"

\* BaseComponent.writeStartTestCode: writes the start test and indents by one
\* when a start is set; returns the number of levels it indented
writeStartTestCode(self, b) ==
    IF self.startVal # ""
    THEN [buff |-> setIndentLevel(writeIndented(b, T_startTest, TRUE), 1),
          indented |-> 1]
    ELSE [buff |-> b, indented |-> 0]

\* BaseComponent.writeStopTestCode: the same for the stop test
writeStopTestCode(self, b) ==
    IF self.stopVal # ""
    THEN [buff |-> setIndentLevel(writeIndented(b, T_stopTest, TRUE), 1),
          indented |-> 1]
    ELSE [buff |-> b, indented |-> 0]

\* the start-test and stop-test blocks, each closed again
startStopCode(self, b) ==
    LET b0 == writeIndented(b, T_updates, TRUE)
        st == writeStartTestCode(self, b0)
        code == (IF lower(self.timeRelativeTo) = "buttonbox onset"
                 THEN << Ln(T_clockReset) >> ELSE << >>)
                \o (IF self.newClicksOnly
                    THEN << Ln(T_prevGetKeys) >> ELSE << Ln(T_prevEmpty) >>)
        b1 == IF st.indented # 0
              THEN writeIndentedLines(st.buff, code)
              ELSE st.buff
        b2 == setIndentLevel(b1, -st.indented)
        sp == writeStopTestCode(self, b2)
    IN  setIndentLevel(sp.buff, -sp.indented)

\* _buttonPressCode(buff, dedent): opens the button-state-changed block and
\* the new-click block
_buttonPressCode(b, dedent) ==
    LET b1 == writeIndentedLines(b, << Ln(T_getKeys), Ln(T_ifChanged) >>)
        b2 == setIndentLevel(b1, 1)
        b3 == writeIndented(b2, T_prevSet, TRUE)
        b4 == writeIndentedLines(b3, << Ln(T_ifNewClick), Ln(T_lastResp) >>)
        b5 == setIndentLevel(b4, 1)
    IN  [buff |-> b5, dedent |-> dedent + 2]

\* endOnPressCode with a slip: the blocks are closed before the bare
\* termination is written
endOnPressCode_dedentFirst(self, b, dedentAtEnd) ==
    LET bp == _buttonPressCode(b, dedentAtEnd)
    IN  IF self.forceEndRoutineOnPress = "valid click"
        THEN setIndentLevel(
                 writeIndentedLines(bp.buff, << Ln(T_ifValid), Ln1(T_end) >>),
                 -bp.dedent)
        ELSE writeIndented(setIndentLevel(bp.buff, -bp.dedent), T_end, FALSE)

\* "No mouse tracking, end routine on any or valid click": the body of the
\* first branch
endOnPressCode(self, b, dedentAtEnd) ==
    LET bp == _buttonPressCode(b, dedentAtEnd)
    IN  IF self.forceEndRoutineOnPress = "valid click"
        THEN setIndentLevel(
                 writeIndentedLines(bp.buff, << Ln(T_ifValid), Ln1(T_end) >>),
                 -bp.dedent)
        ELSE setIndentLevel(writeIndented(bp.buff, T_end, FALSE), -bp.dedent)

\* what is saved inside the new-click block: the data-append lines on every
\* click, or under `if gotValidClick:` when there are clickable buttons (the
\* source has this text twice, once for each arm that tracks clicks)
saveOnClickCode(self, b) ==
    IF self.saveMouseState = "on click"
    THEN writeIndentedLines(b, mouseCode(clockStrOf(self)))
    ELSE IF self.clickable # <<>> /\ self.saveMouseState = "on valid click"
    THEN setIndentLevel(
             writeIndentedLines(
                 setIndentLevel(writeIndentedLines(b, << Ln(T_ifValid) >>), 1),
                 mouseCode(clockStrOf(self))),
             -1)
    ELSE b

\* endRoutineCode with a slip: the bare termination is written for every
\* value but 'never', not for 'any click' alone
endRoutineCode_anyForced(self, b) ==
    LET b1 == IF self.clickable # <<>> /\ self.forceEndRoutineOnPress = "valid click"
              THEN writeIndentedLines(b, << Ln(T_ifValid), Ln1(T_end) >>)
              ELSE b
    IN  IF self.forceEndRoutineOnPress # "never"
        THEN writeIndentedLines(b1, << Ln(T_blank), Ln(T_end) >>)
        ELSE b1

\* the end of the routine in the tracking branch; for 'correct click' the
\* text is built and never written
endRoutineCode(self, b) ==
    LET b1 == IF self.clickable # <<>> /\ self.forceEndRoutineOnPress = "valid click"
              THEN writeIndentedLines(b, << Ln(T_ifValid), Ln1(T_end) >>)
              ELSE b
    IN  IF self.forceEndRoutineOnPress = "any click"
        THEN writeIndentedLines(b1, << Ln(T_blank), Ln(T_end) >>)
        ELSE b1

\* the body of the branch `elif saveMouseState != 'never'`
trackingCode(self, b, dedentAtEnd) ==
    LET forceEnd == self.forceEndRoutineOnPress
        save == self.saveMouseState
        b1 == IF save = "every frame"
              THEN writeIndentedLines(b, mouseCode(clockStrOf(self)))
              ELSE b
        bp == _buttonPressCode(b1, dedentAtEnd)
    IN  IF forceEnd = "never" /\ save \in {"on click", "on valid click"}
        THEN setIndentLevel(saveOnClickCode(self, bp.buff), -bp.dedent)
        ELSE IF forceEnd # "never"
        THEN setIndentLevel(
                 endRoutineCode(self, saveOnClickCode(self, bp.buff)),
                 -bp.dedent)
        ELSE setIndentLevel(b1, -dedentAtEnd)

\* the STARTED guard and what is written under it
updateCode(self, b) ==
    LET b1 == setIndentLevel(writeIndented(b, T_ifStarted, TRUE), 1)
        dedentAtEnd == 1
    IN  IF /\ self.saveMouseState \in {"never", "final"}
           /\ self.forceEndRoutineOnPress # "never"
        THEN endOnPressCode(self, b1, dedentAtEnd)
        ELSE IF self.saveMouseState # "never"
        THEN trackingCode(self, b1, dedentAtEnd)
        ELSE b1

writeFrameCode(self, b) == updateCode(self, startStopCode(self, b))

FrameUpdate ==
    /\ pc = "start"
    /\ pc' = "frame"
    /\ entryLevel' = buff.level
    /\ fragStart' = Len(buff.lines) + 1
    /\ buff' = writeFrameCode(params, buff)
    /\ UNCHANGED <<params, loopList, loopRead>>

\* -------------------------------------------------------------- RoutineEnd
T_stairNote == "# NB PsychoPy doesn't handle a 'correct answer' for mouse events so doesn't know how to handle mouse with StairHandler"
T_getPos == "x, y = buttonbox.getPos()"
T_getPressed == "buttons = buttonbox.getPressed()"
T_ifSum == "if sum(buttons):"
T_clickableObjects == "# check whether the click was in any of the clickable objects"
T_parentEnd == "# (end-of-routine code of BaseComponent)"

\* "# store data for <loop> (<type>)"
storeComment(loop) == "# store data for " \o loop.name \o " (" \o loop.type \o ")"
\* "<loop>.addData('buttonbox.<prop>', <value>)"
addData(loopName, prop, value) ==
    loopName \o ".addData('buttonbox." \o prop \o "', " \o value \o ")"
\* "if len(buttonbox.clicked_<param>):"
ifLenClicked(param) == "if len(buttonbox.clicked_" \o param \o "):"
\* "<handler>.nextEntry()"
nextEntry(handlerName) == handlerName \o ".nextEntry()"

\* the enclosing loop: the last of the loop list, else the experiment handler
currLoopOf(loops) ==
    IF Len(loops) # 0 THEN loops[Len(loops)] ELSE expHandler

\* self._writeClickableObjectsCode(buff): the clicked-objects sub-generator
_writeClickableObjectsCode(b) == writeIndented(b, T_clickableObjects, TRUE)

\* BaseComponent.writeRoutineEndCode(buff): the parent's end-of-routine code
BaseWriteRoutineEndCode(b) == writeIndented(b, T_parentEnd, TRUE)

\* one `if len(clicked_<param>): addData(...)` pair per clickable parameter
RECURSIVE clickedStoreCode(_, _, _)
clickedStoreCode(b, loopName, ps) ==
    IF ps = <<>> THEN b
    ELSE clickedStoreCode(
             writeIndentedLines(b,
                 << Ln(ifLenClicked(Head(ps))),
                    Ln1(addData(loopName, "clicked_" \o Head(ps),
                                "buttonbox.clicked_" \o Head(ps) \o "[0]")) >>),
             loopName, Tail(ps))

\* finalReadCode with a slip: the clicked-objects branch is written without
\* looking at clickable
finalReadCode_noTest(self, b) ==
    LET b1 == writeIndentedLines(b, << Ln(T_getPos), Ln(T_getPressed) >>)
    IN  setIndentLevel(
            _writeClickableObjectsCode(
                setIndentLevel(writeIndented(b1, T_ifSum, TRUE), 1)),
            -1)

\* finalReadCode with a slip: the `if sum(buttons):` block is never closed
finalReadCode_noDedent(self, b) ==
    LET b1 == writeIndentedLines(b, << Ln(T_getPos), Ln(T_getPressed) >>)
    IN  IF self.clickable # <<>>
        THEN _writeClickableObjectsCode(
                 setIndentLevel(writeIndented(b1, T_ifSum, TRUE), 1))
        ELSE b1

\* the position/button read of the 'final' state
finalReadCode(self, b) ==
    LET b1 == writeIndentedLines(b, << Ln(T_getPos), Ln(T_getPressed) >>)
    IN  IF self.clickable # <<>>
        THEN setIndentLevel(
                 _writeClickableObjectsCode(
                     setIndentLevel(writeIndented(b1, T_ifSum, TRUE), 1)),
                 -1)
        ELSE b1

\* the data storage of the 'final' state
finalStoreCode(self, b, currLoop) ==
    LET code == << Ln(addData(currLoop.name, "x", "x")),
                   Ln(addData(currLoop.name, "y", "y")),
                   Ln(addData(currLoop.name, "leftButton", "buttons[0]")),
                   Ln(addData(currLoop.name, "midButton", "buttons[1]")),
                   Ln(addData(currLoop.name, "rightButton", "buttons[2]")) >>
                \o (IF self.storeCorrect
                    THEN << Ln(addData(currLoop.name, "corr", "buttonbox.corr")) >>
                    ELSE << >>)
        b1 == writeIndentedLines(b, code)
    IN  IF currLoop.type # "StairHandler"
        THEN IF self.clickable # <<>>
             THEN clickedStoreCode(b1, currLoop.name, clickableParamsList)
             ELSE b1
        ELSE b

\* "clicked_<param>" for each clickable parameter
RECURSIVE clickedProps(_)
clickedProps(ps) ==
    IF ps = <<>> THEN << >>
    ELSE << "clicked_" \o Head(ps) >> \o clickedProps(Tail(ps))

\* mouseDataProps
mouseDataProps(self) ==
    << "x", "y", "leftButton", "midButton", "rightButton", "time" >>
    \o (IF self.storeCorrect THEN << "corr" >> ELSE << >>)
    \o (IF self.clickable # <<>> THEN clickedProps(clickableParamsList) ELSE << >>)

\* one addData call per property; both arms of the test on
\* store/forceEnd write the same line
RECURSIVE propsStoreCode(_, _, _)
propsStoreCode(b, loopName, props) ==
    IF props = <<>> THEN b
    ELSE propsStoreCode(
             writeIndented(b, addData(loopName, Head(props),
                                      "buttonbox." \o Head(props)), TRUE),
             loopName, Tail(props))

\* the component's own lines: the comment and the data storage
ownEndCode(self, b, currLoop) ==
    LET b1 == writeIndentedLines(b,
                  << Ln(IF currLoop.type = "StairHandler"
                        THEN T_stairNote ELSE storeComment(currLoop)) >>)
    IN  IF self.saveMouseState = "final"
        THEN finalStoreCode(self, finalReadCode(self, b1), currLoop)
        ELSE IF self.saveMouseState # "never"
        THEN propsStoreCode(b1, currLoop.name, mouseDataProps(self))
        ELSE b1

\* endTailCode with a slip: nextEntry is written for every loop
endTailCode_alwaysNext(b, currLoop) ==
    writeIndented(BaseWriteRoutineEndCode(b), nextEntry(expHandler.name), TRUE)

\* the parent's code and then, for the top-level handler, nextEntry
endTailCode(b, currLoop) ==
    LET b1 == BaseWriteRoutineEndCode(b)
    IN  IF currLoop.name = expHandler.name
        THEN writeIndented(b1, nextEntry(expHandler.name), TRUE)
        ELSE b1

writeRoutineEndCode(self, b, loops) ==
    IF self.saveMouseState = "nothing"
    THEN b
    ELSE endTailCode(ownEndCode(self, b, currLoopOf(loops)), currLoopOf(loops))

RoutineEnd ==
    /\ pc = "frame"
    /\ pc' = "end"
    /\ entryLevel' = buff.level
    /\ fragStart' = Len(buff.lines) + 1
    /\ buff' = writeRoutineEndCode(params, buff, loopList)
    /\ loopRead' = (params.saveMouseState # "nothing")
    /\ UNCHANGED <<params, loopList>>

\* ------------------------------------------------------------ specification
Construct ==
    \E sa \in saveMouseStateArgs, fe \in forceEndArgs, tr \in timeRelativeToArgs :
        __init__(sa, fe, tr)

Configure ==
    \E c \in clickableArgs, s \in saveMouseStateArgs,
       nc \in BOOLEAN, sc \in BOOLEAN,
       sv \in {"", "0.0"}, ev \in {"", "1.0"}, ls \in LoopLists :
        configure(c, s, nc, sc, sv, ev, ls)

Next ==
    \/ Construct
    \/ Configure
    \/ RoutineStart
    \/ FrameUpdate
    \/ RoutineEnd

Spec == Init /\ [][Next]_vars

\* the chunks the last phase wrote
Frag == SubSeq(buff.lines, fragStart, Len(buff.lines))

\* ------------------------------------------------- reading a fragment
\* the texts of the data-append lines, in the order mouseCode has them
appendTexts(self) ==
    [i \in 1..Len(mouseCode(clockStrOf(self))) |-> mouseCode(clockStrOf(self))[i].text]

\* the indices of f whose chunk has the text t
At(f, t) == {i \in 1..Len(f) : f[i].text = t}

\* chunk i lies in the block that the `if` at chunk j opens: it comes later
\* and everything from j+1 to i is indented deeper than j
InBlock(f, j, i) ==
    /\ j < i
    /\ \A k \in (j + 1)..i : f[k].ind > f[j].ind

\* chunk i lies in a block opened by an `if` whose text is t
GuardedBy(f, i, t) == \E j \in At(f, t) : InBlock(f, j, i)

\* a routine-termination statement that no click test or correctness test wraps
Unconditional(f, i) ==
    /\ f[i].text = T_end
    /\ ~GuardedBy(f, i, T_ifValid)
    /\ ~GuardedBy(f, i, T_ifCorr)

\* the data-append lines stand in f, one after the other, starting at chunk i
AppendsAt(f, self, i) ==
    /\ i + Len(appendTexts(self)) - 1 <= Len(f)
    /\ \A k \in 1..Len(appendTexts(self)) : f[i + k - 1].text = appendTexts(self)[k]

\* a configuration within the declared value sets
ValidConfig ==
    /\ params.forceEndRoutineOnPress \in forceEndAllowedVals
    /\ params.saveMouseState \in saveMouseStateVals
    /\ params.timeRelativeTo \in timeRelativeToAllowedVals

\* ------------------------------------------------------------------ claims

\* C1: for every valid (forceEndRoutineOnPress, saveMouseState, clickable),
\* writeFrameCode leaves the buffer's indentation level where it was on entry.
C1_FrameIndentRestored ==
    (pc = "frame" /\ ValidConfig) => buff.level = entryLevel

\* C2: with forceEndRoutineOnPress 'valid click' or 'correct click', every
\* routine-termination statement writeFrameCode emits is wrapped in the inner
\* guard of that value (gotValidClick, resp. the last correctness flag).
C2_TerminationGuarded ==
    (/\ pc = "frame"
     /\ ValidConfig
     /\ params.forceEndRoutineOnPress \in {"valid click", "correct click"})
    => \A i \in At(Frag, T_end) :
          GuardedBy(Frag, i,
                    IF params.forceEndRoutineOnPress = "valid click"
                    THEN T_ifValid ELSE T_ifCorr)

\* C3: for forceEndRoutineOnPress='correct click', saveMouseState='on click',
\* clickable=['red','blue'], storeCorrect=true the fragment holds, in this
\* order, the button-state-changed guard, the new-click guard, the
\* data-append lines and a correctness guard wrapping the termination.
C3_CorrectClickScenario ==
    (/\ pc = "frame"
     /\ params.forceEndRoutineOnPress = "correct click"
     /\ params.saveMouseState = "on click"
     /\ params.clickable = <<"red", "blue">>
     /\ params.storeCorrect)
    => \E a \in At(Frag, T_ifChanged), b \in At(Frag, T_ifNewClick),
          c \in 1..Len(Frag), d \in At(Frag, T_ifCorr), e \in At(Frag, T_end) :
          /\ a < b
          /\ b < c
          /\ AppendsAt(Frag, params, c)
          /\ c + Len(appendTexts(params)) - 1 < d
          /\ InBlock(Frag, d, e)

\* C4: every valid configuration gets an emission strategy: a termination
\* statement is written whenever forceEndRoutineOnPress is not 'never', and
\* the data-append lines whenever saveMouseState is 'every frame', 'on click'
\* or 'on valid click'.
C4_FrameTotal ==
    (pc = "frame" /\ ValidConfig)
    => /\ params.forceEndRoutineOnPress # "never" => At(Frag, T_end) # {}
       /\ params.saveMouseState \in {"every frame", "on click", "on valid click"}
             => \E c \in 1..Len(Frag) : AppendsAt(Frag, params, c)

\* C5: with saveMouseState 'never', writeRoutineEndCode writes nothing and
\* returns before it looks up the enclosing loop.
C5_NeverWritesNothing ==
    (pc = "end" /\ params.saveMouseState = "never")
    => Frag = <<>> /\ ~loopRead

\* C6: with forceEndRoutineOnPress 'any click' the fragment holds exactly one
\* unconditional routine-termination statement, and it lies inside the block
\* of the button-state-changed guard.
C6_AnyClickOneTermination ==
    (/\ pc = "frame"
     /\ ValidConfig
     /\ params.forceEndRoutineOnPress = "any click")
    => /\ Cardinality({i \in 1..Len(Frag) : Unconditional(Frag, i)}) = 1
       /\ \A i \in 1..Len(Frag) :
             Unconditional(Frag, i) => GuardedBy(Frag, i, T_ifChanged)

\* C6 happens: 'any click' with clicks saved under `if gotValidClick:`, and
\* the termination written after that block, inside the button-state guard
C6_Witness ==
    /\ pc = "frame"
    /\ params.forceEndRoutineOnPress = "any click"
    /\ params.saveMouseState = "on valid click"
    /\ params.clickable # <<>>
    /\ At(Frag, T_ifValid) # {}
    /\ \E i \in At(Frag, T_end) : GuardedBy(Frag, i, T_ifChanged)

\* C7: at most one button-state-changed block and at most one termination
\* statement are written for any valid configuration; for 'any click' with
\* 'on click' there is exactly one button-state-changed block, and in it the
\* data-append lines come first and the termination second.
C7_NoDuplication ==
    (pc = "frame" /\ ValidConfig)
    => /\ Cardinality(At(Frag, T_ifChanged)) <= 1
       /\ Cardinality(At(Frag, T_end)) <= 1
       /\ (/\ params.forceEndRoutineOnPress = "any click"
           /\ params.saveMouseState = "on click")
          => /\ Cardinality(At(Frag, T_ifChanged)) = 1
             /\ \E g \in At(Frag, T_ifChanged), c \in 1..Len(Frag),
                   e \in At(Frag, T_end) :
                   /\ InBlock(Frag, g, c)
                   /\ AppendsAt(Frag, params, c)
                   /\ c + Len(appendTexts(params)) - 1 < e
                   /\ InBlock(Frag, g, e)

\* C7 happens: 'any click' with 'on click', both the appends and the
\* termination written
C7_Witness ==
    /\ pc = "frame"
    /\ params.forceEndRoutineOnPress = "any click"
    /\ params.saveMouseState = "on click"
    /\ At(Frag, T_end) # {}
    /\ \E c \in 1..Len(Frag) : AppendsAt(Frag, params, c)

\* C8: a value outside a parameter's allowed set is refused at construction,
\* so no generation phase runs with an out-of-set value of
\* forceEndRoutineOnPress, timeRelativeTo or saveMouseState.
C8_GenerationInSet ==
    pc \in {"start", "frame", "end"} => ValidConfig

\* the chunks of f that are the component's own: neither the parent's code
\* nor the nextEntry call
OwnChunks(f) ==
    {i \in 1..Len(f) : f[i].text \notin {T_parentEnd, nextEntry(expHandler.name)}}

\* C9: when writeRoutineEndCode writes the component's own lines, it writes
\* them first, the parent's end-of-routine code after them and the nextEntry
\* call last; nextEntry is written exactly when the enclosing loop's name is
\* the experiment handler's, which is so whenever the loop list is empty.
C9_EndOrder ==
    (pc = "end" /\ OwnChunks(Frag) # {})
    => /\ Cardinality(At(Frag, T_parentEnd)) = 1
       /\ \A o \in OwnChunks(Frag), p \in At(Frag, T_parentEnd) : o < p
       /\ \A p \in At(Frag, T_parentEnd), n \in At(Frag, nextEntry(expHandler.name)) :
             p < n
       /\ At(Frag, nextEntry(expHandler.name)) # {}
             <=> currLoopOf(loopList).name = expHandler.name
       /\ loopList = <<>> => At(Frag, nextEntry(expHandler.name)) # {}

\* C9 happens: data stored in a routine outside every loop, nextEntry last
C9_Witness ==
    /\ pc = "end"
    /\ params.saveMouseState = "on click"
    /\ loopList = <<>>
    /\ Len(Frag) > 2
    /\ Frag[Len(Frag)].text = nextEntry(expHandler.name)
    /\ Frag[Len(Frag) - 1].text = T_parentEnd

\* the texts that store or test a clicked_<param> property
ClickedTexts ==
    UNION {{ifLenClicked(clickableParamsList[k]),
            addData(l.name, "clicked_" \o clickableParamsList[k],
                    "buttonbox.clicked_" \o clickableParamsList[k] \o "[0]"),
            addData(l.name, "clicked_" \o clickableParamsList[k],
                    "buttonbox.clicked_" \o clickableParamsList[k])} :
           k \in 1..Len(clickableParamsList), l \in Loops \cup {expHandler}}

\* C10: with saveMouseState 'final' and no clickable buttons,
\* writeRoutineEndCode writes the position read and the button read, but
\* neither the `if sum(buttons):` branch with the clicked-objects code nor
\* any clicked_<param> storage, whatever the loop and storeCorrect.
C10_FinalNoClickable ==
    (/\ pc = "end"
     /\ params.saveMouseState = "final"
     /\ params.clickable = <<>>)
    => /\ \E i \in At(Frag, T_getPos), j \in At(Frag, T_getPressed) : i < j
       /\ At(Frag, T_ifSum) = {}
       /\ At(Frag, T_clickableObjects) = {}
       /\ \A i \in 1..Len(Frag) : Frag[i].text \notin ClickedTexts

\* C10 happens: 'final' without clickable buttons, in a staircase and with
\* storeCorrect set
C10_Witness ==
    /\ pc = "end"
    /\ params.saveMouseState = "final"
    /\ params.clickable = <<>>
    /\ params.storeCorrect
    /\ currLoopOf(loopList).type = "StairHandler"
    /\ At(Frag, T_getPos) # {}

\* C11: writeRoutineStartCode and writeRoutineEndCode leave the buffer's
\* indentation level where it was when they were entered, for every
\* saveMouseState, clickable, storeCorrect and enclosing loop, the 'final'
\* path with its `if sum(buttons):` block included.
C11_StartEndIndentRestored ==
    pc \in {"start", "end"} => buff.level = entryLevel

\* C11 happens: the 'final' path has opened the `if sum(buttons):` block
\* around the clicked-objects code and the buffer is back at its entry level
C11_Witness ==
    /\ pc = "end"
    /\ params.saveMouseState = "final"
    /\ params.clickable # <<>>
    /\ \E i \in At(Frag, T_ifSum), j \in At(Frag, T_clickableObjects) :
          InBlock(Frag, i, j)
    /\ buff.level = entryLevel

StoredProps ==
    {"x", "y", "leftButton", "midButton", "rightButton", "time", "corr"}
    \cup {"clicked_" \o clickableParamsList[k] : k \in 1..Len(clickableParamsList)}
StoredValues ==
    {"x", "y", "buttons[0]", "buttons[1]", "buttons[2]"}
    \cup {"buttonbox." \o q : q \in StoredProps}
    \cup {"buttonbox." \o q \o "[0]" : q \in StoredProps}

\* the addData calls on the loop named loopName
AddDataTexts(loopName) ==
    {addData(loopName, q, v) : q \in StoredProps, v \in StoredValues}

\* C13: in a StairHandler loop writeRoutineEndCode writes no addData call on
\* that loop for any of 'final', 'every frame', 'on click', 'on valid click':
\* the fragment opens with the note that a StairHandler cannot be handled,
\* stores nothing on the loop and ends with the parent's code.
C13_StairNoAddData ==
    (/\ pc = "end"
     /\ currLoopOf(loopList).type = "StairHandler"
     /\ params.saveMouseState \in {"final", "every frame", "on click", "on valid click"})
    => /\ \A i \in 1..Len(Frag) :
             Frag[i].text \notin AddDataTexts(currLoopOf(loopList).name)
       /\ Frag[1].text = T_stairNote
       /\ Frag[Len(Frag)].text = T_parentEnd

====
